---- MODULE Spec2Model ----
(***************************************************************************)
(* A model of wrf_tools: the configuration resolver and the retrieval      *)
(* pipeline of wrf_client.py, and the annotation store of annotation.py.   *)
(* Values are copied, not shared: where the code hands out one of its own  *)
(* objects, the model says so with a reference (see Returned).             *)
(*                                                                         *)
(* Python values are modelled as follows.  A str is a TLA+ string, and     *)
(* string concatenation is \o.  A dict is a sequence of <<key, value>>     *)
(* pairs with distinct keys, in insertion order (Python dicts keep it).    *)
(* An optional argument (str | None) is a sequence: <<>> is None and <<s>> *)
(* is the string s.  A call that may raise returns a record with the       *)
(* fields raised ("none" or the exception's name) and value.               *)
(***************************************************************************)
EXTENDS Integers, Sequences, FiniteSets, TLC

VARIABLES
    wrf_config,     \* the WrfConfig object: its five lists and four caches
    last,           \* the last resolver call and what it returned or raised
    files,          \* the output root: target path -> content, or NoFile
    run,            \* the position of main()'s loop and how the run ended
    log,            \* one entry per hour the run has reached, in order
    files0,         \* the output root as it was when the run started
    earlier,        \* the runs made before this one over the same output root
    manager,        \* the AnnotationManager object: annotations, geographic_points
    yaml_file,      \* the file at manager's yaml_path
    called,         \* the last AnnotationManager call: its name, what it raised
    writing,        \* an open(yaml_path, "w") in progress, and whether the process runs
    peer,           \* a second AnnotationManager over the same yaml_path
    calls,          \* the calls made so far, in order, in the sessions that log them
    returned,       \* what a caller holds from a get_geographic_points() call
    page            \* the annotation list a browser shows, and its delete requests

resolverVars == <<wrf_config, last>>
pipelineVars == <<files, run, log, files0, earlier>>
storeVars == <<manager, yaml_file, called, writing, peer, calls, returned, page>>
vars == <<wrf_config, last, files, run, log, files0, earlier,
          manager, yaml_file, called, writing, peer, calls, returned, page>>

----------------------------------------------------------------------------
(* Python dicts and optional values *)

None == <<>>
Some(s) == <<s>>

Range(s) == {s[i] : i \in 1..Len(s)}

DictKeys(d) == {d[i][1] : i \in 1..Len(d)}

DictHas(d, k) == k \in DictKeys(d)

DictIndex(d, k) == CHOOSE i \in 1..Len(d) : d[i][1] = k

DictAt(d, k) == d[DictIndex(d, k)][2]

DictAppend(d, k, v) == Append(d, <<k, v>>)

\* d[k] = v: an existing key keeps its position, a new key goes last.
DictSet(d, k, v) ==
    IF DictHas(d, k)
    THEN [d EXCEPT ![DictIndex(d, k)] = <<k, v>>]
    ELSE Append(d, <<k, v>>)

\* del d[k]
DictDel(d, k) ==
    LET i == DictIndex(d, k)
    IN  SubSeq(d, 1, i - 1) \o SubSeq(d, i + 1, Len(d))

DictGetAny(d, k, default) ==
    IF k \in {d[i][1] : i \in 1..Len(d)} THEN d[CHOOSE i \in 1..Len(d) : d[i][1] = k][2]
    ELSE IF d = <<>> THEN default
    ELSE d[1][2]

\* d.get(k, default)
DictGet(d, k, default) == IF DictHas(d, k) THEN DictAt(d, k) ELSE default

----------------------------------------------------------------------------
(* The annotation store before any AnnotationManager exists *)

NoYaml == [exists |-> FALSE, data |-> <<>>]

NoManagerCall == [op |-> "none", raised |-> "none"]

\* No save() is under way: the file is closed, as it was before the last call
\* and as that call meant to leave it; the process runs; no call was made.
Closed(file) == [stage |-> "closed", before |-> file, after |-> file, alive |-> TRUE, calls |-> 0]

NotWriting == Closed(NoYaml)

\* No second manager was constructed, and no caller holds a returned mapping.
NoPeer ==
    [constructed |-> FALSE, loaded |-> NoYaml,
     self |-> [annotations |-> <<>>, geographic_points |-> <<>>]]

NotReturned == [ref |-> "none", at_return |-> <<>>]

NoPage == [domain |-> "", image |-> "", items |-> <<>>, requests |-> <<>>, handled |-> <<>>]

OneManager ==
    /\ peer = NoPeer
    /\ calls = <<>>
    /\ returned = NotReturned
    /\ page = NoPage

StoreOff ==
    /\ manager = [annotations |-> <<>>, geographic_points |-> <<>>]
    /\ yaml_file = NoYaml
    /\ called = NoManagerCall
    /\ writing = NotWriting
    /\ OneManager

----------------------------------------------------------------------------
(* f"{hour:02d}" *)

Digits == <<"0", "1", "2", "3", "4", "5", "6", "7", "8", "9">>

RECURSIVE Dec(_)
Dec(n) == IF n < 10 THEN Digits[n + 1] ELSE Dec(n \div 10) \o Digits[(n % 10) + 1]

Fmt02dUnpadded(hour) == IF hour < 0 THEN "-" \o Dec(0 - hour) ELSE Dec(hour)

\* Width 2, zero fill: only a single digit is padded; a sign counts in the width.
Fmt02d(hour) ==
    IF hour < 0 THEN "-" \o Dec(0 - hour)
    ELSE IF hour < 10 THEN "0" \o Dec(hour)
    ELSE Dec(hour)

----------------------------------------------------------------------------
(* The configuration document, as WrfConfig.load structures it *)

CodeConfig(n, c) == [name |-> n, code |-> c]

ForecastScheduleConfig(n, h) == [name |-> n, hours |-> h]

LayerConfig(d, v, s, m) == [domain |-> d, variable |-> v, forecast_schedule |-> s, maptype |-> m]

base_url == "https://a.atmos.washington.edu/wrfrt/data/timeindep"

domain_codes == <<CodeConfig("d2", "d02"), CodeConfig("d3", "d03")>>

variable_codes == <<CodeConfig("precip", "pcp3"), CodeConfig("pressure", "slp")>>

\* Three maptype tables: the second one names the empty string and repeats a
\* name, the third one is empty.
maptype_codes_plain ==
    <<CodeConfig("ww", "ww_"), CodeConfig("plain", "")>>

maptype_codes_empty_name ==
    <<CodeConfig("ww", "or_"), CodeConfig("", ""), CodeConfig("ww", "ww_"), CodeConfig("plain", "")>>

forecast_schedules ==
    <<ForecastScheduleConfig("short", <<0, 12>>), ForecastScheduleConfig("none", <<>>)>>

\* WrfConfig.__init__: the five lists as given, the four caches empty.
WrfConfig(maptypes, layers) ==
    [domain_codes |-> domain_codes,
     maptype_codes |-> maptypes,
     variable_codes |-> variable_codes,
     forecast_schedules |-> forecast_schedules,
     layers |-> layers,
     _domains |-> <<>>,
     _maptypes |-> <<>>,
     _variables |-> <<>>,
     _schedules |-> <<>>]

----------------------------------------------------------------------------
(* WrfConfig: the four lazily built lookup tables *)

\* {conf.name: conf.code for conf in confs}: a repeated name keeps its first
\* position and takes its last code.
RECURSIVE CodeTable(_)
CodeTable(confs) ==
    IF confs = <<>> THEN <<>>
    ELSE LET front == CodeTable(SubSeq(confs, 1, Len(confs) - 1))
             conf == confs[Len(confs)]
         IN  DictSet(front, conf.name, conf.code)

\* {conf.name: conf.hours for conf in confs}
RECURSIVE ScheduleTable(_)
ScheduleTable(confs) ==
    IF confs = <<>> THEN <<>>
    ELSE LET front == ScheduleTable(SubSeq(confs, 1, Len(confs) - 1))
             conf == confs[Len(confs)]
         IN  DictSet(front, conf.name, conf.hours)

\* "if not self._x: self._x = {...}": an empty cache is (re)built.
Memo(cache, built) == IF cache = <<>> THEN built ELSE cache

Raise(self, exc, msg) == [self |-> self, raised |-> exc, value |-> msg]

Return(self, v) == [self |-> self, raised |-> "none", value |-> v]

\* table.get(name), then "if code is None: raise ValueError(...)".
LookupOrDefault(self, table, name) ==
    IF DictHas(table, name) THEN Return(self, DictAt(table, name)) ELSE Return(self, "")

Lookup(self, table, name) ==
    IF DictHas(table, name)
    THEN Return(self, DictAt(table, name))
    ELSE Raise(self, "ValueError", name \o " was not found")

get_domain_code(self, domain_name) ==
    LET s == [self EXCEPT !._domains = Memo(@, CodeTable(self.domain_codes))]
    IN  Lookup(s, s._domains, domain_name)

get_maptype_code(self, maptype_name) ==
    LET s == [self EXCEPT !._maptypes = Memo(@, CodeTable(self.maptype_codes))]
    IN  Lookup(s, s._maptypes, maptype_name)

get_variable_code(self, variable_name) ==
    LET s == [self EXCEPT !._variables = Memo(@, CodeTable(self.variable_codes))]
    IN  Lookup(s, s._variables, variable_name)

get_forecast_hours(self, schedule_name) ==
    LET s == [self EXCEPT !._schedules = Memo(@, ScheduleTable(self.forecast_schedules))]
    IN  Lookup(s, s._schedules, schedule_name)

\* "... if maptype is not None else ''", written with the truth value of maptype.
MaptypeCodeIfTruthy(self, maptype) ==
    IF maptype # None /\ maptype # Some("")
    THEN get_maptype_code(self, maptype[1])
    ELSE Return(self, "")

\* self.get_maptype_code(maptype) if maptype is not None else ""
MaptypeCode(self, maptype) ==
    IF maptype # None THEN get_maptype_code(self, maptype[1]) ELSE Return(self, "")

\* The three lookups run in the order domain, maptype, variable; the first one
\* that raises ends the call, with the caches built so far kept.
build_url(self, domain, variable, hour, maptype) ==
    LET d == get_domain_code(self, domain)
        m == MaptypeCode(d.self, maptype)
        v == get_variable_code(m.self, variable)
    IN  IF d.raised # "none" THEN d
        ELSE IF m.raised # "none" THEN m
        ELSE IF v.raised # "none" THEN v
        ELSE Return(v.self,
                    base_url \o "/images_" \o d.value \o "/" \o m.value \o v.value
                        \o "." \o Fmt02d(hour) \o ".0000.gif")

----------------------------------------------------------------------------
(* The resolver called directly: each call is one step *)

DomainNames == {"d2", "dX"}

MaptypeNames == {"ww", "plain", "", "mX"}

VariableNames == {"precip", "vX"}

ScheduleNames == {"short", "none", "sX"}

HourInputs == {0, 9, 10, 99}

NoCall == [op |-> "none", args |-> <<>>, cached |-> FALSE, raised |-> "none", value |-> ""]

Called(op, args, cached, r) ==
    [op |-> op, args |-> args, cached |-> cached, raised |-> r.raised, value |-> r.value]

NoRun == [state |-> "off", layer |-> 0, hours |-> <<>>, hour |-> 0, error |-> "none"]

PipelineOff ==
    /\ files = <<>>
    /\ files0 = <<>>
    /\ log = <<>>
    /\ run = NoRun
    /\ earlier = <<>>

ResolverInit ==
    /\ wrf_config \in {WrfConfig(maptype_codes_plain, <<>>),
                       WrfConfig(maptype_codes_empty_name, <<>>),
                       WrfConfig(<<>>, <<>>)}
    /\ last = NoCall
    /\ PipelineOff
    /\ StoreOff

GetDomainCode(name) ==
    LET r == get_domain_code(wrf_config, name)
    IN  /\ wrf_config' = r.self
        /\ last' = Called("get_domain_code", <<name>>, wrf_config._domains # <<>>, r)
        /\ UNCHANGED <<pipelineVars, storeVars>>

GetMaptypeCode(name) ==
    LET r == get_maptype_code(wrf_config, name)
    IN  /\ wrf_config' = r.self
        /\ last' = Called("get_maptype_code", <<name>>, wrf_config._maptypes # <<>>, r)
        /\ UNCHANGED <<pipelineVars, storeVars>>

GetVariableCode(name) ==
    LET r == get_variable_code(wrf_config, name)
    IN  /\ wrf_config' = r.self
        /\ last' = Called("get_variable_code", <<name>>, wrf_config._variables # <<>>, r)
        /\ UNCHANGED <<pipelineVars, storeVars>>

GetForecastHours(name) ==
    LET r == get_forecast_hours(wrf_config, name)
    IN  /\ wrf_config' = r.self
        /\ last' = Called("get_forecast_hours", <<name>>, wrf_config._schedules # <<>>, r)
        /\ UNCHANGED <<pipelineVars, storeVars>>

BuildUrl(domain, variable, hour, maptype) ==
    LET r == build_url(wrf_config, domain, variable, hour, maptype)
    IN  /\ wrf_config' = r.self
        /\ last' = Called("build_url", <<domain, variable, hour, maptype>>,
                          wrf_config._domains # <<>>, r)
        /\ UNCHANGED <<pipelineVars, storeVars>>

ResolverNext ==
    \/ \E name \in DomainNames : GetDomainCode(name)
    \/ \E name \in MaptypeNames : GetMaptypeCode(name)
    \/ \E name \in VariableNames : GetVariableCode(name)
    \/ \E name \in ScheduleNames : GetForecastHours(name)
    \/ \E domain \in DomainNames, variable \in VariableNames, hour \in HourInputs,
          maptype \in {None} \cup {Some(m) : m \in MaptypeNames} :
            BuildUrl(domain, variable, hour, maptype)

ResolverSpec == ResolverInit /\ [][ResolverNext]_vars

----------------------------------------------------------------------------
(* WrfClient.download_layer and main(): the retrieval run *)

MaxLayers == 2

\* The layers a configuration may list: two that share domain and variable and
\* differ in maptype, one per kind of unknown name, and one with no hours.
LayerPool ==
    {LayerConfig("d2", "precip", "short", "ww"),
     LayerConfig("d2", "precip", "short", "plain"),
     LayerConfig("d2", "precip", "short", "mX"),
     LayerConfig("dX", "precip", "short", "ww"),
     LayerConfig("d2", "vX", "short", "ww"),
     LayerConfig("d2", "precip", "sX", "ww"),
     LayerConfig("d2", "precip", "none", "ww")}

LayerLists == UNION {[1..n -> LayerPool] : n \in 0..MaxLayers}

\* output_path / layer.domain / layer.variable / f"hour{fx_hour:02d}.gif",
\* relative to output_path.
TargetPath(layer, fx_hour) ==
    layer.domain \o "/" \o layer.variable \o "/hour" \o Fmt02d(fx_hour) \o ".gif"

AllHours == UNION {Range(forecast_schedules[i].hours) : i \in 1..Len(forecast_schedules)}

AllPaths == {TargetPath(layer, h) : layer \in LayerPool, h \in AllHours}

NoFile == [exists |-> FALSE, bytes |-> ""]

File(bytes) == [exists |-> TRUE, bytes |-> bytes]

\* The remote service: what it answers to a GET of an address.
Responses == {"ok", "status", "transport"}

Body(url) == "GIF " \o url

\* self._client.get(image_url): a transport error raises; any other answer is
\* a response with a status and a content.
client_get(image_url, response) ==
    IF response = "transport"
    THEN [raised |-> "TransportError", success |-> FALSE, content |-> ""]
    ELSE IF response = "ok"
    THEN [raised |-> "none", success |-> TRUE, content |-> Body(image_url)]
    ELSE [raised |-> "none", success |-> FALSE, content |-> "error page"]

StatusIgnored(r) == "none"

\* r.raise_for_status()
raise_for_status(r) == IF r.success THEN "none" ELSE "HTTPStatusError"

NeverExists(path) == FALSE

ExistsNonEmpty(path) == files[path].exists /\ files[path].bytes # ""

\* gif_output_path.exists()
Exists(path) == files[path].exists

\* A log entry: the hour reached, its target, whether the target existed, how
\* the turn ended ("skip", "written" or the exception raised), and the address
\* and the service's answer when a GET was issued ("" when none was).
Entry(layer, fx_hour, path, outcome, url, response) ==
    [layer |-> layer, hour |-> fx_hour, path |-> path, existed |-> files[path].exists,
     outcome |-> outcome, url |-> url, response |-> response]

Failed(exc) == [run EXCEPT !.state = "failed", !.error = exc]

PipelineInit ==
    /\ wrf_config \in {WrfConfig(maptype_codes_plain, layers) : layers \in LayerLists}
    /\ last = NoCall
    /\ files0 \in [AllPaths -> {NoFile, File("old")}]
    /\ files = files0
    /\ log = <<>>
    /\ run = [state |-> "main", layer |-> 1, hours |-> <<>>, hour |-> 0, error |-> "none"]
    /\ earlier = <<>>
    /\ StoreOff

\* main(): the next layer of wrf_config.layers; download_layer starts with
\* get_forecast_hours, which may raise.
BeginLayer ==
    /\ run.state = "main"
    /\ run.layer <= Len(wrf_config.layers)
    /\ LET r == get_forecast_hours(wrf_config, wrf_config.layers[run.layer].forecast_schedule)
       IN  /\ wrf_config' = r.self
           /\ run' = IF r.raised # "none" THEN Failed(r.raised)
                     ELSE [run EXCEPT !.state = "hours", !.hours = r.value, !.hour = 1]
    /\ UNCHANGED <<last, files, log, files0, earlier, storeVars>>

\* One turn of download_layer's loop whose target exists: continue.
SkipHour ==
    /\ run.state = "hours"
    /\ run.hour <= Len(run.hours)
    /\ LET fx_hour == run.hours[run.hour]
           gif_output_path == TargetPath(wrf_config.layers[run.layer], fx_hour)
       IN  /\ Exists(gif_output_path)
           /\ log' = Append(log, Entry(run.layer, fx_hour, gif_output_path, "skip", "", ""))
           /\ run' = [run EXCEPT !.hour = @ + 1]
    /\ UNCHANGED <<wrf_config, last, files, files0, earlier, storeVars>>

\* One turn of download_layer's loop whose target is missing: build_url, GET,
\* raise_for_status, write_bytes; whatever raises ends the run.
FetchHour(response) ==
    /\ run.state = "hours"
    /\ run.hour <= Len(run.hours)
    /\ LET layer == wrf_config.layers[run.layer]
           fx_hour == run.hours[run.hour]
           gif_output_path == TargetPath(layer, fx_hour)
           u == build_url(wrf_config, layer.domain, layer.variable, fx_hour, Some(layer.maptype))
           r == client_get(u.value, response)
           status == IF r.raised # "none" THEN r.raised ELSE raise_for_status(r)
       IN  /\ ~Exists(gif_output_path)
           /\ wrf_config' = u.self
           /\ IF u.raised # "none"
              THEN /\ log' = Append(log, Entry(run.layer, fx_hour, gif_output_path, u.raised, "", ""))
                   /\ run' = Failed(u.raised)
                   /\ files' = files
              ELSE IF status # "none"
              THEN /\ log' = Append(log, Entry(run.layer, fx_hour, gif_output_path, status, u.value,
                                               response))
                   /\ run' = Failed(status)
                   /\ files' = files
              ELSE /\ log' = Append(log, Entry(run.layer, fx_hour, gif_output_path, "written",
                                               u.value, response))
                   /\ run' = [run EXCEPT !.hour = @ + 1]
                   /\ files' = [files EXCEPT ![gif_output_path] = File(r.content)]
    /\ UNCHANGED <<last, files0, earlier, storeVars>>

\* download_layer returns: main() goes on to the next layer.
EndLayer ==
    /\ run.state = "hours"
    /\ run.hour > Len(run.hours)
    /\ run' = [run EXCEPT !.state = "main", !.layer = @ + 1, !.hours = <<>>, !.hour = 0]
    /\ UNCHANGED <<wrf_config, last, files, log, files0, earlier, storeVars>>

\* main() returns after the last layer.
Finish ==
    /\ run.state = "main"
    /\ run.layer > Len(wrf_config.layers)
    /\ run' = [run EXCEPT !.state = "done"]
    /\ UNCHANGED <<wrf_config, last, files, log, files0, earlier, storeVars>>

PipelineNext ==
    \/ BeginLayer
    \/ SkipHour
    \/ \E response \in Responses : FetchHour(response)
    \/ EndLayer
    \/ Finish

PipelineSpec == PipelineInit /\ [][PipelineNext]_vars

----------------------------------------------------------------------------
(* main() run again over the same configuration and output root *)

MaxRuns == 2

\* The runs start from an output root that holds none of the target files,
\* or all of them.
RerunInit ==
    /\ wrf_config \in {WrfConfig(maptype_codes_plain, layers) : layers \in LayerLists}
    /\ last = NoCall
    /\ files0 \in {[path \in AllPaths |-> NoFile], [path \in AllPaths |-> File("old")]}
    /\ files = files0
    /\ log = <<>>
    /\ run = [state |-> "main", layer |-> 1, hours |-> <<>>, hour |-> 0, error |-> "none"]
    /\ earlier = <<>>
    /\ StoreOff

\* A run has ended, by return, by an exception or by being terminated: the
\* command is run again. WrfConfig.load builds a new object, with empty
\* tables; the output root is as the last run left it.
Rerun ==
    /\ run.state \in {"done", "failed", "terminated"}
    /\ Len(earlier) + 1 < MaxRuns
    /\ earlier' = Append(earlier, [state |-> run.state, log |-> log, files0 |-> files0])
    /\ wrf_config' = WrfConfig(wrf_config.maptype_codes, wrf_config.layers)
    /\ files0' = files
    /\ log' = <<>>
    /\ run' = [state |-> "main", layer |-> 1, hours |-> <<>>, hour |-> 0, error |-> "none"]
    /\ UNCHANGED <<last, files, storeVars>>

RerunNext == PipelineNext \/ Rerun

RerunSpec == RerunInit /\ [][RerunNext]_vars

----------------------------------------------------------------------------
(* AnnotationManager: load and save *)

\* A dump that writes each mapping's entries last first.
DocumentReversed(self) ==
    LET Reversed(d) == [i \in 1..Len(d) |-> d[Len(d) + 1 - i]]
    IN  <<<<"geographic_points", Reversed(self.geographic_points)>>,
          <<"domains", Reversed(self.annotations)>>>>

\* yaml.dump({"geographic_points": ..., "domains": ...}, f, sort_keys=False):
\* the document holds the two sections in this order, each mapping in its
\* own insertion order.
Document(self) ==
    <<<<"geographic_points", self.geographic_points>>, <<"domains", self.annotations>>>>

\* What open(yaml_path) and yaml.safe_load give: an absent file is not read,
\* and an empty document loads as None.
\* load(): "if data:" takes each section with data.get(section, {}).
load(file) ==
    IF file.exists /\ file.data # <<>>
    THEN [annotations |-> DictGet(file.data, "domains", <<>>),
          geographic_points |-> DictGet(file.data, "geographic_points", <<>>)]
    ELSE [annotations |-> <<>>, geographic_points |-> <<>>]

\* A call's outcome: the object, the file, what was raised, whether save() ran.
Outcome(self, file, raised, saved) ==
    [self |-> self, file |-> file, raised |-> raised, saved |-> saved]

NotSaved(self, file) == Outcome(self, file, "none", FALSE)

\* save(): open(yaml_path, "w") and the dump of the whole document.
save(self, file) == Outcome(self, [exists |-> TRUE, data |-> Document(self)], "none", TRUE)

----------------------------------------------------------------------------
(* AnnotationManager: geographic points *)

GeographicPoint(name, lat, lon) == [name |-> name, latitude |-> lat, longitude |-> lon]

get_geographic_points(self) == self.geographic_points

add_geographic_point_reloaded(self, file, key, name, lat, lon) ==
    save([load(file) EXCEPT !.geographic_points = DictSet(@, key, GeographicPoint(name, lat, lon))],
         file)

add_geographic_point(self, file, key, name, lat, lon) ==
    save([self EXCEPT !.geographic_points = DictSet(@, key, GeographicPoint(name, lat, lon))],
         file)

update_geographic_point_upsert(self, file, key, name, lat, lon) ==
    save([self EXCEPT !.geographic_points = DictSet(@, key, GeographicPoint(name, lat, lon))],
         file)

update_geographic_point(self, file, key, name, lat, lon) ==
    IF DictHas(self.geographic_points, key)
    THEN save([self EXCEPT !.geographic_points =
                                DictSet(@, key, GeographicPoint(name, lat, lon))], file)
    ELSE NotSaved(self, file)

remove_geographic_point_unsaved(self, file, key) ==
    IF DictHas(self.geographic_points, key)
    THEN NotSaved([self EXCEPT !.geographic_points = DictDel(@, key)], file)
    ELSE NotSaved(self, file)

remove_geographic_point_cascading(self, file, key) ==
    LET kept(list) == SelectSeq(list, LAMBDA annotation : annotation.point # key)
        images(d) == self.annotations[d][2]
        cascaded == [d \in 1..Len(self.annotations) |->
                        <<self.annotations[d][1],
                          [i \in 1..Len(images(d)) |->
                              <<images(d)[i][1], kept(images(d)[i][2])>>]>>]
    IN  IF DictHas(self.geographic_points, key)
        THEN save([self EXCEPT !.geographic_points = DictDel(@, key),
                               !.annotations = cascaded], file)
        ELSE NotSaved(self, file)

remove_geographic_point(self, file, key) ==
    IF DictHas(self.geographic_points, key)
    THEN save([self EXCEPT !.geographic_points = DictDel(@, key)], file)
    ELSE NotSaved(self, file)

----------------------------------------------------------------------------
(* AnnotationManager: annotations *)

\* list.pop(index) and list[index] = value: Python counts a negative index
\* from the end, and raises IndexError outside -len..len-1.
PyIndexOk(list, index) == 0 - Len(list) <= index /\ index < Len(list)

PyPosition(list, index) == IF index < 0 THEN index + Len(list) + 1 ELSE index + 1

PyPopFirst(list, index) == Tail(list)

PyPop(list, index) ==
    LET k == PyPosition(list, index)
    IN  SubSeq(list, 1, k - 1) \o SubSeq(list, k + 1, Len(list))

PyInsert(list, index, value) ==
    LET k == PyPosition(list, index)
    IN  SubSeq(list, 1, k - 1) \o <<value>> \o SubSeq(list, k, Len(list))

PySetItem(list, index, value) == [list EXCEPT ![PyPosition(list, index)] = value]

get_annotations(self, domain, image) ==
    DictGet(DictGet(self.annotations, domain, <<>>), image, <<>>)

\* A set_annotations that drops the image's key when the list is empty.
set_annotations_pruning(self, file, domain, image, annotations) ==
    LET images == DictSet(DictGet(self.annotations, domain, <<>>), image, annotations)
        kept == IF annotations = <<>> THEN DictDel(images, image) ELSE images
    IN  save([self EXCEPT !.annotations = DictSet(@, domain, kept)], file)

set_annotations(self, file, domain, image, annotations) ==
    LET images == DictGet(self.annotations, domain, <<>>)
    IN  save([self EXCEPT !.annotations = DictSet(@, domain, DictSet(images, image, annotations))],
             file)

add_annotation(self, file, domain, image, annotation) ==
    set_annotations(self, file, domain, image,
                    Append(get_annotations(self, domain, image), annotation))

UpperBoundOnly(index, annotations) == index < Len(annotations)

\* 0 <= index < len(annotations)
InRange(index, annotations) == 0 <= index /\ index < Len(annotations)

remove_annotation(self, file, domain, image, index) ==
    LET annotations == get_annotations(self, domain, image)
    IN  IF InRange(index, annotations)
        THEN IF PyIndexOk(annotations, index)
             THEN set_annotations(self, file, domain, image, PyPop(annotations, index))
             ELSE Outcome(self, file, "IndexError", FALSE)
        ELSE NotSaved(self, file)

update_annotation(self, file, domain, image, index, annotation) ==
    LET annotations == get_annotations(self, domain, image)
    IN  IF InRange(index, annotations)
        THEN IF PyIndexOk(annotations, index)
             THEN set_annotations(self, file, domain, image,
                                  PySetItem(annotations, index, annotation))
             ELSE Outcome(self, file, "IndexError", FALSE)
        ELSE NotSaved(self, file)

\* get_all_annotations(): {"domain": domain, "image": image, "index": idx, **ann}
\* for each annotation, in the order of the three nested loops.  A key of the
\* annotation takes the place of the same key before it.
EnumeratedFromOne(domain, image, annotations) ==
    [k \in 1..Len(annotations) |->
        annotations[k] @@ [domain |-> domain, image |-> image, index |-> k]]

EnumeratedAnnotations(domain, image, annotations) ==
    [k \in 1..Len(annotations) |->
        annotations[k] @@ [domain |-> domain, image |-> image, index |-> k - 1]]

RECURSIVE ImagesItems(_, _)
ImagesItems(domain, images) ==
    IF images = <<>> THEN <<>>
    ELSE EnumeratedAnnotations(domain, images[1][1], images[1][2])
            \o ImagesItems(domain, Tail(images))

RECURSIVE AnnotationsItems(_)
AnnotationsItems(domains) ==
    IF domains = <<>> THEN <<>>
    ELSE ImagesItems(domains[1][1], domains[1][2]) \o AnnotationsItems(Tail(domains))

get_all_annotations(self) == AnnotationsItems(self.annotations)

----------------------------------------------------------------------------
(* The store in use: each AnnotationManager call is one step *)

MaxStored == 2

\* The (domain, image) pairs the calls name: two images of one domain, and
\* one image of another domain.
Pairs == {<<"d2", "a.gif">>, <<"d2", "b.gif">>, <<"d3", "a.gif">>}

PointKeys == {"sea", "pdx"}

PointFields == {<<"Seattle", 47, -122>>, <<"Portland", 45, -123>>}

Annotations ==
    {[pixel_x |-> 10, pixel_y |-> 20, point |-> "sea"],
     [pixel_x |-> 30, pixel_y |-> 40, point |-> "pdx"]}

\* The lists set_annotations is called with.
AnnotationLists ==
    {<<>>,
     <<[pixel_x |-> 10, pixel_y |-> 20, point |-> "sea"]>>,
     <<[pixel_x |-> 30, pixel_y |-> 40, point |-> "pdx"],
       [pixel_x |-> 10, pixel_y |-> 20, point |-> "sea"]>>}

Indexes == (0 - 1)..MaxStored

\* The number of annotations the object holds, over every (domain, image).
RECURSIVE Stored(_)
Stored(dict) ==
    IF dict = <<>> THEN 0
    ELSE LET value == dict[Len(dict)][2]
             rest == SubSeq(dict, 1, Len(dict) - 1)
         IN  (IF value = <<>> THEN 0
              ELSE IF value[1] \in Annotations THEN Len(value)
              ELSE Stored(value)) + Stored(rest)

\* The documents a store may be constructed over: none, an empty one, one
\* that an earlier process saved.
InitialFiles ==
    {NoYaml,
     [exists |-> TRUE, data |-> <<>>],
     [exists |-> TRUE,
      data |-> Document([geographic_points |-> <<<<"sea", GeographicPoint("Seattle", 47, -122)>>>>,
                         annotations |-> <<<<"d2", <<<<"a.gif",
                                <<[pixel_x |-> 10, pixel_y |-> 20, point |-> "sea"]>>>>>>>>>>])]}

ResolverOff ==
    /\ wrf_config = WrfConfig(maptype_codes_plain, <<>>)
    /\ last = NoCall

\* AnnotationManager.__init__: load() from the file at yaml_path.
StoreInit ==
    /\ yaml_file \in InitialFiles
    /\ manager = load(yaml_file)
    /\ called = NoManagerCall
    /\ writing = NotWriting
    /\ OneManager
    /\ ResolverOff
    /\ PipelineOff

\* A call runs to its end: the object and the file are as the call leaves them.
Completes(op, r) ==
    /\ manager' = r.self
    /\ yaml_file' = r.file
    /\ called' = [op |-> op, raised |-> r.raised]
    /\ UNCHANGED <<writing, peer, calls, returned, page, resolverVars, pipelineVars>>

AddGeographicPoint(key, fields) ==
    Completes("add_geographic_point",
              add_geographic_point(manager, yaml_file, key, fields[1], fields[2], fields[3]))

UpdateGeographicPoint(key, fields) ==
    Completes("update_geographic_point",
              update_geographic_point(manager, yaml_file, key, fields[1], fields[2], fields[3]))

RemoveGeographicPoint(key) ==
    Completes("remove_geographic_point",
              remove_geographic_point(manager, yaml_file, key))

SetAnnotations(domain, image, annotations) ==
    /\ Stored(manager.annotations) - Len(get_annotations(manager, domain, image))
            + Len(annotations) <= MaxStored
    /\ Completes("set_annotations",
                 set_annotations(manager, yaml_file, domain, image, annotations))

AddAnnotation(domain, image, annotation) ==
    /\ Stored(manager.annotations) < MaxStored
    /\ Completes("add_annotation",
                 add_annotation(manager, yaml_file, domain, image, annotation))

RemoveAnnotation(domain, image, index) ==
    Completes("remove_annotation",
              remove_annotation(manager, yaml_file, domain, image, index))

UpdateAnnotation(domain, image, index, annotation) ==
    Completes("update_annotation",
              update_annotation(manager, yaml_file, domain, image, index, annotation))

StoreNext ==
    \/ \E key \in PointKeys, fields \in PointFields : AddGeographicPoint(key, fields)
    \/ \E key \in PointKeys, fields \in PointFields : UpdateGeographicPoint(key, fields)
    \/ \E key \in PointKeys : RemoveGeographicPoint(key)
    \/ \E pair \in Pairs, annotations \in AnnotationLists :
          SetAnnotations(pair[1], pair[2], annotations)
    \/ \E pair \in Pairs, annotation \in Annotations :
          AddAnnotation(pair[1], pair[2], annotation)
    \/ \E pair \in Pairs, index \in Indexes :
          RemoveAnnotation(pair[1], pair[2], index)
    \/ \E pair \in Pairs, index \in Indexes, annotation \in Annotations :
          UpdateAnnotation(pair[1], pair[2], index, annotation)

StoreSpec == StoreInit /\ [][StoreNext]_vars

\* Two more documents that earlier sessions saved: one with two points, each
\* referenced by annotations; one whose annotation references a point that
\* was removed.
SavedFiles ==
    InitialFiles \cup
    {[exists |-> TRUE,
      data |-> Document(
         [geographic_points |-> <<<<"pdx", GeographicPoint("Portland", 45, 0 - 123)>>,
                                  <<"sea", GeographicPoint("Seattle", 47, 0 - 122)>>>>,
          annotations |->
             <<<<"d3", <<<<"a.gif", <<[pixel_x |-> 30, pixel_y |-> 40, point |-> "pdx"]>>>>>>>>,
               <<"d2", <<<<"b.gif",
                           <<[pixel_x |-> 10, pixel_y |-> 20, point |-> "sea"],
                             [pixel_x |-> 30, pixel_y |-> 40, point |-> "pdx"]>>>>>>>>>>])],
     [exists |-> TRUE,
      data |-> Document(
         [geographic_points |-> <<<<"pdx", GeographicPoint("Portland", 45, 0 - 123)>>>>,
          annotations |->
             <<<<"d2", <<<<"a.gif", <<[pixel_x |-> 10, pixel_y |-> 20, point |-> "sea"]>>>>,
                         <<"b.gif", <<>>>>>>>>>>])]}

PointsInit ==
    /\ yaml_file \in SavedFiles
    /\ manager = load(yaml_file)
    /\ called = NoManagerCall
    /\ writing = NotWriting
    /\ OneManager
    /\ ResolverOff
    /\ PipelineOff

\* A session in which only the geographic point methods are called.
PointsNext ==
    \/ \E key \in PointKeys, fields \in PointFields : AddGeographicPoint(key, fields)
    \/ \E key \in PointKeys, fields \in PointFields : UpdateGeographicPoint(key, fields)
    \/ \E key \in PointKeys : RemoveGeographicPoint(key)

PointsSpec == PointsInit /\ [][PointsNext]_vars

\* A session in which only the annotation methods are called.
AnnotationsNext ==
    \/ \E pair \in Pairs, annotations \in AnnotationLists :
          SetAnnotations(pair[1], pair[2], annotations)
    \/ \E pair \in Pairs, annotation \in Annotations :
          AddAnnotation(pair[1], pair[2], annotation)
    \/ \E pair \in Pairs, index \in Indexes :
          RemoveAnnotation(pair[1], pair[2], index)
    \/ \E pair \in Pairs, index \in Indexes, annotation \in Annotations :
          UpdateAnnotation(pair[1], pair[2], index, annotation)

AnnotationsSpec == StoreInit /\ [][AnnotationsNext]_vars

----------------------------------------------------------------------------
(* save() step by step, in a process that may be stopped at any point *)

MaxCalls == 2

\* The mutating calls that can be made now, each with its outcome.
MutatingCalls ==
    {<<"add_geographic_point",
       add_geographic_point(manager, yaml_file, key, f[1], f[2], f[3])>> :
        key \in PointKeys, f \in PointFields}
    \cup {<<"update_geographic_point",
            update_geographic_point(manager, yaml_file, key, f[1], f[2], f[3])>> :
        key \in PointKeys, f \in PointFields}
    \cup {<<"remove_geographic_point", remove_geographic_point(manager, yaml_file, key)>> :
        key \in PointKeys}
    \cup {<<"set_annotations",
            set_annotations(manager, yaml_file, pair[1], pair[2], annotations)>> :
        pair \in Pairs, annotations \in AnnotationLists}
    \cup {<<"add_annotation",
            add_annotation(manager, yaml_file, pair[1], pair[2], annotation)>> :
        pair \in Pairs, annotation \in Annotations}
    \cup {<<"remove_annotation",
            remove_annotation(manager, yaml_file, pair[1], pair[2], index)>> :
        pair \in Pairs, index \in Indexes}
    \cup {<<"update_annotation",
            update_annotation(manager, yaml_file, pair[1], pair[2], index, annotation)>> :
        pair \in Pairs, index \in Indexes, annotation \in Annotations}

CrashInit ==
    /\ yaml_file \in InitialFiles
    /\ manager = load(yaml_file)
    /\ called = NoManagerCall
    /\ writing = Closed(yaml_file)
    /\ OneManager
    /\ ResolverOff
    /\ PipelineOff

\* A mutating call up to and including save()'s open(yaml_path, "w"): the
\* object is changed, the file is created or truncated, nothing is written yet.
\* A call that does not save ends here.
BeginCall ==
    /\ writing.alive
    /\ writing.stage = "closed"
    /\ writing.calls < MaxCalls
    /\ \E call \in MutatingCalls :
          LET r == call[2]
          IN  /\ Stored(r.self.annotations) <= MaxStored
              /\ manager' = r.self
              /\ called' = [op |-> call[1], raised |-> r.raised]
              /\ yaml_file' = IF r.saved THEN [exists |-> TRUE, data |-> <<>>] ELSE yaml_file
              /\ writing' = [stage |-> IF r.saved THEN "open" ELSE "closed",
                             before |-> yaml_file, after |-> r.file, alive |-> TRUE,
                             calls |-> writing.calls + 1]
    /\ UNCHANGED <<peer, calls, returned, page, resolverVars, pipelineVars>>

\* yaml.dump writes the next section of the document to the open file.
DumpSection ==
    /\ writing.alive
    /\ writing.stage = "open"
    /\ Len(yaml_file.data) < Len(writing.after.data)
    /\ yaml_file' = [yaml_file EXCEPT !.data = Append(@, writing.after.data[Len(@) + 1])]
    /\ UNCHANGED <<manager, called, writing, peer, calls, returned, page,
                   resolverVars, pipelineVars>>

\* The with block ends: the file is closed and the call returns.
CloseFile ==
    /\ writing.alive
    /\ writing.stage = "open"
    /\ Len(yaml_file.data) = Len(writing.after.data)
    /\ writing' = [writing EXCEPT !.stage = "closed"]
    /\ UNCHANGED <<manager, yaml_file, called, peer, calls, returned, page,
                   resolverVars, pipelineVars>>

\* The process is stopped.
Stop ==
    /\ writing.alive
    /\ writing' = [writing EXCEPT !.alive = FALSE]
    /\ UNCHANGED <<manager, yaml_file, called, peer, calls, returned, page,
                   resolverVars, pipelineVars>>

CrashNext == BeginCall \/ DumpSection \/ CloseFile \/ Stop

CrashSpec == CrashInit /\ [][CrashNext]_vars

----------------------------------------------------------------------------
(* Two AnnotationManager objects over one yaml_path, called in any order *)

Instances == {"manager", "peer"}

Instance(by) == IF by = "manager" THEN manager ELSE peer.self

\* Both managers are constructed, each with its own load(), before any call.
SharedInit ==
    /\ yaml_file \in InitialFiles
    /\ manager = load(yaml_file)
    /\ peer = [constructed |-> TRUE, loaded |-> yaml_file, self |-> load(yaml_file)]
    /\ called = NoManagerCall
    /\ writing = NotWriting
    /\ calls = <<>>
    /\ returned = NotReturned
    /\ page = NoPage
    /\ ResolverOff
    /\ PipelineOff

\* A call on one of the two objects runs to its end: that object and the file
\* are as the call leaves them, the other object is as it was.
SharedCompletes(by, op, key, r) ==
    /\ Len(calls) < MaxCalls
    /\ manager' = IF by = "manager" THEN r.self ELSE manager
    /\ peer' = IF by = "peer" THEN [peer EXCEPT !.self = r.self] ELSE peer
    /\ yaml_file' = r.file
    /\ called' = [op |-> op, raised |-> r.raised]
    /\ calls' = Append(calls, [by |-> by, op |-> op, key |-> key, saved |-> r.saved])
    /\ UNCHANGED <<writing, returned, page, resolverVars, pipelineVars>>

SharedAddGeographicPoint(by, key, fields) ==
    SharedCompletes(by, "add_geographic_point", key,
        add_geographic_point(Instance(by), yaml_file, key, fields[1], fields[2], fields[3]))

SharedUpdateGeographicPoint(by, key, fields) ==
    SharedCompletes(by, "update_geographic_point", key,
        update_geographic_point(Instance(by), yaml_file, key, fields[1], fields[2], fields[3]))

SharedRemoveGeographicPoint(by, key) ==
    SharedCompletes(by, "remove_geographic_point", key,
        remove_geographic_point(Instance(by), yaml_file, key))

SharedNext ==
    \/ \E by \in Instances, key \in PointKeys, fields \in PointFields :
          SharedAddGeographicPoint(by, key, fields)
    \/ \E by \in Instances, key \in PointKeys, fields \in PointFields :
          SharedUpdateGeographicPoint(by, key, fields)
    \/ \E by \in Instances, key \in PointKeys : SharedRemoveGeographicPoint(by, key)

SharedSpec == SharedInit /\ [][SharedNext]_vars

----------------------------------------------------------------------------
(* A caller that keeps what get_geographic_points() returned *)

\* "return self.geographic_points": the caller is handed the manager's own
\* dict object, not a new one.  at_return is what it held at that moment.
Returned(self) ==
    [ref |-> "self.geographic_points", at_return |-> get_geographic_points(self)]

\* What the caller reads in the mapping it holds.
Held == IF returned.ref = "self.geographic_points" THEN manager.geographic_points
        ELSE returned.at_return

GetGeographicPoints ==
    /\ returned' = Returned(manager)
    /\ called' = [op |-> "get_geographic_points", raised |-> "none"]
    /\ UNCHANGED <<manager, yaml_file, writing, peer, calls, page, resolverVars, pipelineVars>>

\* The caller assigns to a key of the mapping it holds, or deletes one: the
\* dict it changes is the manager's, and no save() runs.
CallerSetsItem(key, fields) ==
    /\ returned.ref = "self.geographic_points"
    /\ manager' = [manager EXCEPT !.geographic_points =
                        DictSet(@, key, GeographicPoint(fields[1], fields[2], fields[3]))]
    /\ called' = [op |-> "caller: points[key] = value", raised |-> "none"]
    /\ UNCHANGED <<yaml_file, writing, peer, calls, returned, page, resolverVars, pipelineVars>>

CallerDeletesItem(key) ==
    /\ returned.ref = "self.geographic_points"
    /\ DictHas(manager.geographic_points, key)
    /\ manager' = [manager EXCEPT !.geographic_points = DictDel(@, key)]
    /\ called' = [op |-> "caller: del points[key]", raised |-> "none"]
    /\ UNCHANGED <<yaml_file, writing, peer, calls, returned, page, resolverVars, pipelineVars>>

CallerNext ==
    \/ GetGeographicPoints
    \/ \E key \in PointKeys, fields \in PointFields : AddGeographicPoint(key, fields)
    \/ \E key \in PointKeys, fields \in PointFields : UpdateGeographicPoint(key, fields)
    \/ \E key \in PointKeys : RemoveGeographicPoint(key)
    \/ \E key \in PointKeys, fields \in PointFields : CallerSetsItem(key, fields)
    \/ \E key \in PointKeys : CallerDeletesItem(key)

CallerSpec == StoreInit /\ [][CallerNext]_vars

----------------------------------------------------------------------------
(* AnnotationManager.__init__ over documents of any shape *)

\* Documents that are not a mapping at the top: text that is not YAML, a list
\* with elements, an empty list.  A document without the field yaml is a
\* mapping, or empty.
NotYaml == [exists |-> TRUE, data |-> <<>>, yaml |-> "unparsable"]

TopLevelList == [exists |-> TRUE, data |-> <<>>, yaml |-> "list"]

TopLevelEmptyList == [exists |-> TRUE, data |-> <<>>, yaml |-> "empty list"]

\* A mapping whose point lacks latitude and longitude.
PointWithoutCoordinates ==
    [exists |-> TRUE,
     data |-> <<<<"geographic_points", <<<<"sea", [name |-> "Seattle"]>>>>>>,
                <<"domains", <<<<"d2", <<<<"a.gif",
                      <<[pixel_x |-> 10, pixel_y |-> 20, point |-> "sea"]>>>>>>>>>>>>>>]

Documents ==
    InitialFiles \cup {NotYaml, TopLevelList, TopLevelEmptyList, PointWithoutCoordinates}

\* yaml.safe_load(f): it raises on text that is not YAML, and gives None for
\* an empty document.
safe_load(file) ==
    IF "yaml" \in DOMAIN file
    THEN CASE file.yaml = "unparsable" -> [raised |-> "YAMLError", type |-> "", truthy |-> FALSE]
           [] file.yaml = "list" -> [raised |-> "none", type |-> "list", truthy |-> TRUE]
           [] file.yaml = "empty list" -> [raised |-> "none", type |-> "list", truthy |-> FALSE]
    ELSE [raised |-> "none", type |-> IF file.data = <<>> THEN "None" ELSE "dict",
          truthy |-> file.data # <<>>]

\* AnnotationManager(yaml_path, data_dir): __init__ calls load().  "if data:"
\* sends every falsy document to the empty store; data.get raises on a value
\* that is not a dict; the sections are taken as they are.
AnnotationManager(file) ==
    LET empty == [annotations |-> <<>>, geographic_points |-> <<>>]
    IN  IF ~file.exists THEN [self |-> empty, raised |-> "none"]
        ELSE LET data == safe_load(file)
             IN  IF data.raised # "none" THEN [self |-> empty, raised |-> data.raised]
                 ELSE IF ~data.truthy THEN [self |-> empty, raised |-> "none"]
                 ELSE IF data.type # "dict" THEN [self |-> empty, raised |-> "AttributeError"]
                 ELSE [self |-> load(file), raised |-> "none"]

LoadInit ==
    /\ yaml_file \in Documents
    /\ manager = [annotations |-> <<>>, geographic_points |-> <<>>]
    /\ called = NoManagerCall
    /\ writing = NotWriting
    /\ OneManager
    /\ ResolverOff
    /\ PipelineOff

\* The manager is constructed; an exception leaves no manager to call.
Construct ==
    /\ calls = <<>>
    /\ LET r == AnnotationManager(yaml_file)
       IN  /\ manager' = r.self
           /\ called' = [op |-> "__init__", raised |-> r.raised]
           /\ calls' = <<[by |-> "manager", op |-> "__init__", raised |-> r.raised,
                          loaded |-> yaml_file]>>
    /\ UNCHANGED <<yaml_file, writing, peer, returned, page, resolverVars, pipelineVars>>

\* A call on the constructed manager runs to its end.
LoadedCompletes(op, key, r) ==
    /\ calls # <<>>
    /\ calls[1].raised = "none"
    /\ Len(calls) <= MaxCalls
    /\ manager' = r.self
    /\ yaml_file' = r.file
    /\ called' = [op |-> op, raised |-> r.raised]
    /\ calls' = Append(calls, [by |-> "manager", op |-> op, key |-> key, saved |-> r.saved])
    /\ UNCHANGED <<writing, peer, returned, page, resolverVars, pipelineVars>>

LoadedAddGeographicPoint(key, fields) ==
    LoadedCompletes("add_geographic_point", key,
        add_geographic_point(manager, yaml_file, key, fields[1], fields[2], fields[3]))

LoadedUpdateGeographicPoint(key, fields) ==
    LoadedCompletes("update_geographic_point", key,
        update_geographic_point(manager, yaml_file, key, fields[1], fields[2], fields[3]))

LoadedRemoveGeographicPoint(key) ==
    LoadedCompletes("remove_geographic_point", key,
        remove_geographic_point(manager, yaml_file, key))

LoadNext ==
    \/ Construct
    \/ \E key \in PointKeys, fields \in PointFields : LoadedAddGeographicPoint(key, fields)
    \/ \E key \in PointKeys, fields \in PointFields : LoadedUpdateGeographicPoint(key, fields)
    \/ \E key \in PointKeys : LoadedRemoveGeographicPoint(key)

LoadSpec == LoadInit /\ [][LoadNext]_vars

----------------------------------------------------------------------------
(* A run terminated while gif_output_path.write_bytes(r.content) is writing *)

\* What write_bytes may have put on disk when the process is stopped inside
\* it: the file is opened for writing first, which creates it empty, and the
\* content follows; every response content starts with the same four bytes.
PartialContents == {"", "GIF "}

\* One turn of download_layer's loop whose target is missing and whose GET
\* succeeded, stopped inside write_bytes: nothing after the write runs, no
\* handler removes the file.
TerminateInWrite(partial) ==
    /\ run.state = "hours"
    /\ run.hour <= Len(run.hours)
    /\ LET layer == wrf_config.layers[run.layer]
           fx_hour == run.hours[run.hour]
           gif_output_path == TargetPath(layer, fx_hour)
           u == build_url(wrf_config, layer.domain, layer.variable, fx_hour, Some(layer.maptype))
           r == client_get(u.value, "ok")
       IN  /\ ~Exists(gif_output_path)
           /\ u.raised = "none"
           /\ raise_for_status(r) = "none"
           /\ wrf_config' = u.self
           /\ log' = Append(log, Entry(run.layer, fx_hour, gif_output_path, "terminated",
                                       u.value, "ok"))
           /\ run' = [run EXCEPT !.state = "terminated"]
           /\ files' = [files EXCEPT ![gif_output_path] = File(partial)]
    /\ UNCHANGED <<last, files0, earlier, storeVars>>

TerminatedNext ==
    \/ PipelineNext
    \/ \E partial \in PartialContents : TerminateInWrite(partial)
    \/ Rerun

TerminatedSpec == RerunInit /\ [][TerminatedNext]_vars

----------------------------------------------------------------------------
(* The annotation list in a browser, and its Delete buttons *)

\* Documents whose lists are long enough for an index to go stale: three
\* different annotations of one image; two of one image and one of another.
ListedFiles ==
    {[exists |-> TRUE,
      data |-> Document(
         [geographic_points |-> <<<<"sea", GeographicPoint("Seattle", 47, 0 - 122)>>>>,
          annotations |->
             <<<<"d2", <<<<"a.gif",
                           <<[pixel_x |-> 10, pixel_y |-> 20, point |-> "sea"],
                             [pixel_x |-> 30, pixel_y |-> 40, point |-> "pdx"],
                             [pixel_x |-> 50, pixel_y |-> 60, point |-> "sea"]>>>>>>>>>>])],
     [exists |-> TRUE,
      data |-> Document(
         [geographic_points |-> <<>>,
          annotations |->
             <<<<"d2", <<<<"a.gif",
                           <<[pixel_x |-> 30, pixel_y |-> 40, point |-> "pdx"],
                             [pixel_x |-> 10, pixel_y |-> 20, point |-> "sea"]>>>>>>>>,
               <<"d3", <<<<"a.gif",
                           <<[pixel_x |-> 50, pixel_y |-> 60, point |-> "sea"]>>>>>>>>>>])]}

PageInit ==
    /\ yaml_file \in ListedFiles
    /\ manager = load(yaml_file)
    /\ called = NoManagerCall
    /\ writing = NotWriting
    /\ OneManager
    /\ ResolverOff
    /\ PipelineOff

\* A handler that removes only while the index still holds the annotation
\* its button was rendered for.
remove_addressed(self, file, request) ==
    LET annotations == get_annotations(self, request.domain, request.image)
    IN
    IF /\ InRange(request.index, annotations)
       /\ annotations[request.index + 1] = request.addressed
    THEN remove_annotation(self, file, request.domain, request.image, request.index)
    ELSE NotSaved(self, file)

\* The delete branch of manage_annotations, and
\* delete_annotation_from_manage_tab: the index comes from the button's id.
delete_annotation(self, file, request) ==
    remove_annotation(self, file, request.domain, request.image, request.index)

\* update_annotations_list: one item per annotation, its Delete button
\* carrying the annotation's index in the list as it is now. Requests
\* already sent stay as they are.
UpdateAnnotationsList(domain, image) ==
    /\ page' = [page EXCEPT !.domain = domain, !.image = image,
                            !.items = get_annotations(manager, domain, image)]
    /\ UNCHANGED <<manager, yaml_file, called, writing, peer, calls, returned,
                   resolverVars, pipelineVars>>

\* A click on the Delete button of one rendered item: the request is sent
\* with the index the button was rendered with.
ClickDelete(index) ==
    /\ Len(page.requests) + Len(page.handled) < MaxCalls
    /\ index \in 0..(Len(page.items) - 1)
    /\ page' = [page EXCEPT !.requests =
                    Append(@, [domain |-> page.domain, image |-> page.image, index |-> index,
                               addressed |-> page.items[index + 1], items |-> page.items])]
    /\ UNCHANGED <<manager, yaml_file, called, writing, peer, calls, returned,
                   resolverVars, pipelineVars>>

\* The server handles the requests one after the other, in the order sent.
HandleDelete ==
    /\ page.requests # <<>>
    /\ LET request == Head(page.requests)
           r == delete_annotation(manager, yaml_file, request)
       IN  /\ manager' = r.self
           /\ yaml_file' = r.file
           /\ called' = [op |-> "remove_annotation", raised |-> r.raised]
           /\ page' = [page EXCEPT
                  !.requests = Tail(@),
                  !.handled = Append(@,
                      [request |-> request,
                       before |-> get_annotations(manager, request.domain, request.image),
                       after |-> get_annotations(r.self, request.domain, request.image)])]
    /\ UNCHANGED <<writing, peer, calls, returned, resolverVars, pipelineVars>>

PageNext ==
    \/ \E pair \in Pairs : UpdateAnnotationsList(pair[1], pair[2])
    \/ \E index \in 0..(Len(page.items) - 1) : ClickDelete(index)
    \/ HandleDelete

PageSpec == PageInit /\ [][PageNext]_vars

----------------------------------------------------------------------------
(* A session of point and annotation calls, and a new instance afterwards *)

\* The pairs this session's annotation calls name: one image in each of two
\* domains.
RoundTripPairs == {<<"d2", "a.gif">>, <<"d3", "a.gif">>}

RoundTripNext ==
    \/ \E key \in PointKeys, fields \in PointFields : AddGeographicPoint(key, fields)
    \/ \E key \in PointKeys, fields \in PointFields : UpdateGeographicPoint(key, fields)
    \/ \E key \in PointKeys : RemoveGeographicPoint(key)
    \/ \E pair \in RoundTripPairs, annotations \in AnnotationLists :
          SetAnnotations(pair[1], pair[2], annotations)
    \/ \E pair \in RoundTripPairs, annotation \in Annotations :
          AddAnnotation(pair[1], pair[2], annotation)
    \/ \E pair \in RoundTripPairs, index \in Indexes :
          RemoveAnnotation(pair[1], pair[2], index)
    \/ \E pair \in RoundTripPairs, index \in Indexes, annotation \in Annotations :
          UpdateAnnotation(pair[1], pair[2], index, annotation)

RoundTripSpec == PointsInit /\ [][RoundTripNext]_vars

----------------------------------------------------------------------------
(* What the configuration document says, read off its lists directly *)

Named(confs, name) == \E i \in 1..Len(confs) : confs[i].name = name

LastNamed(confs, name) ==
    confs[CHOOSE i \in 1..Len(confs) :
            /\ confs[i].name = name
            /\ \A j \in (i + 1)..Len(confs) : confs[j].name # name]

TwoDigits(hour) == Digits[(hour \div 10) + 1] \o Digits[(hour % 10) + 1]

\* The address the remote service expects for three codes and an hour.
Address(domainCode, maptypeCode, variableCode, hour) ==
    base_url \o "/images_" \o domainCode \o "/" \o maptypeCode \o variableCode
        \o "." \o TwoDigits(hour) \o ".0000.gif"

ResolvableDomains == {d \in DomainNames : Named(wrf_config.domain_codes, d)}

ResolvableVariables == {v \in VariableNames : Named(wrf_config.variable_codes, v)}

ResolvableMaptypes == {m \in MaptypeNames : Named(wrf_config.maptype_codes, m)}

----------------------------------------------------------------------------
(* C8 *)

\* C8 (as stated): for every resolvable domain, variable and hour, build_url
\* with maptype omitted and build_url with maptype "" end the same way, with
\* the same address.
C8_OmittedSameAsEmptyString ==
    \A d \in ResolvableDomains, v \in ResolvableVariables, h \in HourInputs :
        LET omitted == build_url(wrf_config, d, v, h, None)
            empty == build_url(wrf_config, d, v, h, Some(""))
        IN  /\ empty.raised = omitted.raised
            /\ empty.value = omitted.value

\* C8 (amended): for every resolvable domain, variable and hour, build_url with
\* maptype omitted returns the address with an empty maptype segment, which is
\* the address build_url returns for any maptype name whose code is "".  The
\* empty string is such a name only when the maptype table names it with the
\* code ""; when the table does not name it, build_url with maptype "" raises
\* ValueError (name not found).
C8_OmittedSameAsEmptyCode ==
    \A d \in ResolvableDomains, v \in ResolvableVariables, h \in HourInputs :
        LET omitted == build_url(wrf_config, d, v, h, None)
            empty == build_url(wrf_config, d, v, h, Some(""))
            dc == LastNamed(wrf_config.domain_codes, d).code
            vc == LastNamed(wrf_config.variable_codes, v).code
        IN  /\ omitted.raised = "none"
            /\ omitted.value = Address(dc, "", vc, h)
            /\ \A m \in ResolvableMaptypes :
                  LastNamed(wrf_config.maptype_codes, m).code = ""
                      => LET named == build_url(wrf_config, d, v, h, Some(m))
                         IN  named.raised = "none" /\ named.value = omitted.value
            /\ ~Named(wrf_config.maptype_codes, "") =>
                  /\ empty.raised = "ValueError"
                  /\ empty.value = " was not found"

\* build_url was called without a maptype under a table that names "" with the
\* code "", and returned the address that maptype "" gives.
C8_Witness ==
    /\ last.op = "build_url"
    /\ last.args[4] = None
    /\ last.raised = "none"
    /\ Named(wrf_config.maptype_codes, "")
    /\ LET empty == build_url(wrf_config, last.args[1], last.args[2], last.args[3], Some(""))
       IN  empty.raised = "none" /\ empty.value = last.value

----------------------------------------------------------------------------
(* C9 *)

\* C9: for every resolvable domain, variable and maptype (or none) and every
\* hour in 0..99, build_url returns base_url + "/images_" + domain code + "/" +
\* maptype code + variable code + "." + the hour as two digits + ".0000.gif",
\* whatever the caches hold: the address is a function of the codes and the hour.
C9_AddressShape ==
    /\ (/\ last.op = "build_url"
        /\ last.args[1] \in ResolvableDomains
        /\ last.args[2] \in ResolvableVariables
        /\ last.args[3] \in 0..99
        /\ last.args[4] \in {None} \cup {Some(m) : m \in ResolvableMaptypes})
        => /\ last.raised = "none"
           /\ last.value =
                Address(LastNamed(wrf_config.domain_codes, last.args[1]).code,
                        IF last.args[4] = None THEN ""
                        ELSE LastNamed(wrf_config.maptype_codes, last.args[4][1]).code,
                        LastNamed(wrf_config.variable_codes, last.args[2]).code,
                        last.args[3])
    /\ \A d \in ResolvableDomains, v \in ResolvableVariables, m \in ResolvableMaptypes,
          h \in 0..99 :
            build_url(wrf_config, d, v, h, Some(m)).value =
                Address(LastNamed(wrf_config.domain_codes, d).code,
                        LastNamed(wrf_config.maptype_codes, m).code,
                        LastNamed(wrf_config.variable_codes, v).code, h)

\* build_url has returned the address of hour 9 of a layer with a maptype.
C9_Witness ==
    /\ last.op = "build_url"
    /\ last.args = <<"d2", "precip", 9, Some("ww")>>
    /\ last.value =
        "https://a.atmos.washington.edu/wrfrt/data/timeindep/images_d02/ww_pcp3.09.0000.gif"

----------------------------------------------------------------------------
(* C10 *)

\* C10: get_domain_code, get_maptype_code, get_variable_code and
\* get_forecast_hours raise ValueError (name not found), and return nothing, for
\* every name their list does not hold: in the call just made, and in any call
\* made next, whether or not the cache is built.
C10_AbsentNameRaises ==
    /\ (last.op = "get_domain_code" /\ ~Named(wrf_config.domain_codes, last.args[1]))
        => last.raised = "ValueError"
    /\ (last.op = "get_maptype_code" /\ ~Named(wrf_config.maptype_codes, last.args[1]))
        => last.raised = "ValueError"
    /\ (last.op = "get_variable_code" /\ ~Named(wrf_config.variable_codes, last.args[1]))
        => last.raised = "ValueError"
    /\ (last.op = "get_forecast_hours" /\ ~Named(wrf_config.forecast_schedules, last.args[1]))
        => last.raised = "ValueError"
    /\ \A n \in DomainNames \ ResolvableDomains :
          get_domain_code(wrf_config, n).raised = "ValueError"
    /\ \A n \in MaptypeNames \ ResolvableMaptypes :
          get_maptype_code(wrf_config, n).raised = "ValueError"
    /\ \A n \in VariableNames \ ResolvableVariables :
          get_variable_code(wrf_config, n).raised = "ValueError"
    /\ \A n \in {x \in ScheduleNames : ~Named(wrf_config.forecast_schedules, x)} :
          get_forecast_hours(wrf_config, n).raised = "ValueError"

\* A lookup of an absent name has raised with its table already cached, the
\* other three tables being cached as well.
C10_Witness ==
    /\ last.op = "get_forecast_hours"
    /\ last.args = <<"sX">>
    /\ last.cached
    /\ last.raised = "ValueError"
    /\ wrf_config._domains # <<>>
    /\ wrf_config._maptypes # <<>>
    /\ wrf_config._variables # <<>>

----------------------------------------------------------------------------
(* The run, read off the configuration, the initial output root and the log *)

LayerNamesResolve(layer) ==
    /\ Named(wrf_config.domain_codes, layer.domain)
    /\ Named(wrf_config.variable_codes, layer.variable)
    /\ Named(wrf_config.maptype_codes, layer.maptype)

ScheduleResolves(layer) == Named(wrf_config.forecast_schedules, layer.forecast_schedule)

HoursOf(layer) == LastNamed(wrf_config.forecast_schedules, layer.forecast_schedule).hours

\* The target of log[k] existed when its hour was reached: it was there when
\* the run started, or an earlier turn of this run wrote it.
ExistedWhenReached(k) ==
    \/ files0[log[k].path].exists
    \/ \E j \in 1..(k - 1) : log[j].path = log[k].path /\ log[j].outcome = "written"

\* <<layer, hour>> of every turn of a run that visits every hour of every layer.
RECURSIVE VisitsFrom(_)
VisitsFrom(i) ==
    IF i > Len(wrf_config.layers) THEN <<>>
    ELSE [j \in 1..Len(HoursOf(wrf_config.layers[i])) |->
            <<i, HoursOf(wrf_config.layers[i])[j]>>] \o VisitsFrom(i + 1)

FetchFailures == {"status", "transport"}

----------------------------------------------------------------------------
(* C2 *)

\* C2: a target that exists when its hour is reached is skipped: no GET is
\* issued for it and it is not written; a target that is missing is fetched
\* (or the run fails at it).  Every file of the initial output root keeps its
\* bytes.  A run that completes has visited every hour of every layer and has
\* fetched and written exactly the hours whose target was missing.
C2_ExistingTargetSkipped ==
    /\ \A k \in 1..Len(log) :
          /\ ExistedWhenReached(k) => log[k].outcome = "skip"
          /\ log[k].outcome = "skip" => ExistedWhenReached(k) /\ log[k].url = ""
    /\ \A p \in DOMAIN files0 : files0[p].exists => files[p] = files0[p]
    /\ \A p \in DOMAIN files :
          files[p] # files0[p] =>
              \E k \in 1..Len(log) :
                  /\ log[k].path = p
                  /\ log[k].outcome = "written"
                  /\ ~ExistedWhenReached(k)
    /\ run.state = "done" =>
          /\ [k \in 1..Len(log) |-> <<log[k].layer, log[k].hour>>] = VisitsFrom(1)
          /\ \A k \in 1..Len(log) :
                (log[k].url # "" /\ log[k].outcome = "written") <=> ~ExistedWhenReached(k)

\* A completed run over hours 0 and 12 in which hour00.gif was there from the
\* start and was skipped, and hour12.gif was missing and was fetched.
C2_Witness ==
    /\ run.state = "done"
    /\ \E j, k \in 1..Len(log) :
          /\ log[j].layer = log[k].layer
          /\ log[j].hour = 0 /\ log[j].outcome = "skip"
          /\ files0[log[j].path].exists /\ files[log[j].path] = File("old")
          /\ log[k].hour = 12 /\ log[k].outcome = "written"
          /\ files[log[k].path] = File(Body(log[k].url))

----------------------------------------------------------------------------
(* C5 *)

\* C5 (as stated): after a run that started from an empty output root and
\* completed, for every layer and every hour of its schedule the target file
\* holds the body of that layer's own address.
C5_EveryLayerMaterialized ==
    (run.state = "done" /\ \A p \in DOMAIN files0 : ~files0[p].exists) =>
        \A i \in 1..Len(wrf_config.layers) :
            LET layer == wrf_config.layers[i]
            IN  \A h \in Range(HoursOf(layer)) :
                    LET u == build_url(wrf_config, layer.domain, layer.variable, h,
                                       Some(layer.maptype))
                    IN  /\ u.raised = "none"
                        /\ files[TargetPath(layer, h)] = File(Body(u.value))

----------------------------------------------------------------------------
(* C6 *)

\* C6: a GET that ends in a transport error or a non-success status is the
\* last thing the run does: the run has failed with that error, the target of
\* the failing hour does not exist, and the log holds no later turn (no later
\* hour or layer is reached).  No non-success answer is ever written.
C6_FailFast ==
    /\ \A k \in 1..Len(log) :
          log[k].response \in FetchFailures =>
              /\ k = Len(log)
              /\ run.state = "failed"
              /\ run.error = (IF log[k].response = "status" THEN "HTTPStatusError"
                              ELSE "TransportError")
              /\ log[k].outcome = run.error
              /\ ~files[log[k].path].exists
    /\ \A p \in DOMAIN files : files[p].bytes # "error page"
    /\ run.state = "failed" => log # <<>> \/ run.error = "ValueError"

\* The second hour of the first of two layers got a non-success status after
\* the first hour was written: the run has failed with the second layer unread.
C6_Witness ==
    /\ run.state = "failed"
    /\ run.error = "HTTPStatusError"
    /\ Len(log) = 2
    /\ log[1].outcome = "written"
    /\ log[2].response = "status"
    /\ run.layer = 1
    /\ Len(wrf_config.layers) = 2
    /\ ~files[log[2].path].exists

----------------------------------------------------------------------------
(* C7 *)

\* C7 (as stated): a run over layers of which one has a domain, variable,
\* maptype or schedule name that its table does not hold never completes.
C7_UnknownNameNeverCompletes ==
    run.state = "done" =>
        \A i \in 1..Len(wrf_config.layers) :
            /\ ScheduleResolves(wrf_config.layers[i])
            /\ LayerNamesResolve(wrf_config.layers[i])

\* C7 (amended): a run never completes if a layer's schedule name is unknown,
\* or if a layer's domain, variable or maptype name is unknown and one of its
\* hours is reached with the target missing: the run fails there with
\* ValueError (name not found) before any GET for that hour.  These three names
\* are resolved only when a GET is about to be issued: a layer with such an
\* unknown name completes only if every one of its hours was skipped.
C7_UnknownNameFailsWhenResolved ==
    /\ run.state = "done" =>
          \A i \in 1..Len(wrf_config.layers) :
              /\ ScheduleResolves(wrf_config.layers[i])
              /\ ~LayerNamesResolve(wrf_config.layers[i]) =>
                    \A k \in 1..Len(log) :
                        log[k].layer = i => log[k].outcome = "skip" /\ ExistedWhenReached(k)
    /\ \A k \in 1..Len(log) :
          (~LayerNamesResolve(wrf_config.layers[log[k].layer]) /\ ~ExistedWhenReached(k)) =>
              /\ log[k].outcome = "ValueError"
              /\ log[k].url = "" /\ log[k].response = ""
              /\ k = Len(log)
              /\ run.state = "failed" /\ run.error = "ValueError"
              /\ ~files[log[k].path].exists
    /\ (run.state \in {"main", "hours"} /\ run.layer <= Len(wrf_config.layers)) =>
          \A i \in 1..(run.layer - 1) : ScheduleResolves(wrf_config.layers[i])
    /\ (run.state = "failed" /\ run.error = "ValueError") =>
          \/ ~ScheduleResolves(wrf_config.layers[run.layer])
          \/ ~LayerNamesResolve(wrf_config.layers[run.layer])

\* A layer with an unknown domain whose hour 0 target existed and was skipped
\* without error, and whose hour 12 target was missing: the run failed there.
C7_Witness ==
    /\ run.state = "failed"
    /\ run.error = "ValueError"
    /\ Len(log) = 2
    /\ log[1].layer = log[2].layer
    /\ ~Named(wrf_config.domain_codes, wrf_config.layers[log[1].layer].domain)
    /\ log[1].outcome = "skip"
    /\ log[2].outcome = "ValueError"

----------------------------------------------------------------------------
(* What the durable document holds, read off the file *)

HeldPoints(file) ==
    IF file.exists /\ DictHas(file.data, "geographic_points")
    THEN DictAt(file.data, "geographic_points") ELSE <<>>

HeldAnnotations(file) ==
    IF file.exists /\ DictHas(file.data, "domains") THEN DictAt(file.data, "domains") ELSE <<>>

OutOfRange(index, list) == index < 0 \/ index >= Len(list)

----------------------------------------------------------------------------
(* C1 *)

\* C1: in every state of the store and for every (domain, image),
\* remove_annotation with an index below 0 or not below the length of the list
\* raises nothing and leaves the object and the file as they are; so the list
\* of that (domain, image) is unchanged, and index -1 does not remove the last
\* annotation.
C1_RemoveOutOfRangeIgnored ==
    \A pair \in Pairs, index \in Indexes \cup {0 - 2, 0 - MaxStored, MaxStored + 1} :
        LET before == get_annotations(manager, pair[1], pair[2])
            r == remove_annotation(manager, yaml_file, pair[1], pair[2], index)
        IN  OutOfRange(index, before) =>
                /\ r.raised = "none"
                /\ get_annotations(r.self, pair[1], pair[2]) = before
                /\ r.self = manager
                /\ r.file = yaml_file

\* remove_annotation has just returned, and there is a list of two annotations
\* for which the indexes -1 and 2 are out of range.
C1_Witness ==
    /\ called.op = "remove_annotation"
    /\ called.raised = "none"
    /\ \E pair \in Pairs :
          /\ Len(get_annotations(manager, pair[1], pair[2])) = 2
          /\ remove_annotation(manager, yaml_file, pair[1], pair[2], 0 - 1).self = manager
          /\ remove_annotation(manager, yaml_file, pair[1], pair[2], 2).self = manager

----------------------------------------------------------------------------
(* C3 *)

\* C3: after every completed call of one store, the document holds exactly the
\* geographic points and the annotations of the object, an absent document
\* holding none.
C3_DocumentHoldsStore ==
    /\ HeldPoints(yaml_file) = manager.geographic_points
    /\ HeldAnnotations(yaml_file) = manager.annotations
    /\ called.raised = "none"

\* A point was removed from a store that holds another point and annotations
\* of two domains, and the document holds what is left.
C3_Witness ==
    /\ called.op = "remove_geographic_point"
    /\ Len(manager.geographic_points) = 1
    /\ Len(manager.annotations) = 2
    /\ Stored(manager.annotations) = 2
    /\ yaml_file.exists
    /\ HeldPoints(yaml_file) = manager.geographic_points

----------------------------------------------------------------------------
(* C4 *)

\* C4 (as stated): whenever the process is stopped, the document holds all
\* the points and annotations it held before the call under way, or all those
\* it holds after it (an absent document and an empty one holding none).
C4_SaveIsAtomic ==
    ~writing.alive =>
        \/ /\ HeldPoints(yaml_file) = HeldPoints(writing.before)
           /\ HeldAnnotations(yaml_file) = HeldAnnotations(writing.before)
        \/ /\ HeldPoints(yaml_file) = HeldPoints(writing.after)
           /\ HeldAnnotations(yaml_file) = HeldAnnotations(writing.after)

----------------------------------------------------------------------------
(* C11 *)

\* C11: in every state of the store, for every (domain, image) and every
\* annotation, add_annotation followed by remove_annotation at the last index
\* of the list the add left (its length - 1) raises nothing, and
\* get_annotations then returns the sequence it returned before the add.
C11_AddThenRemoveLast ==
    \A pair \in Pairs, annotation \in Annotations :
        LET before == get_annotations(manager, pair[1], pair[2])
            added == add_annotation(manager, yaml_file, pair[1], pair[2], annotation)
            last_index == Len(get_annotations(added.self, pair[1], pair[2])) - 1
            removed == remove_annotation(added.self, added.file, pair[1], pair[2], last_index)
        IN  /\ added.raised = "none"
            /\ get_annotations(added.self, pair[1], pair[2]) = Append(before, annotation)
            /\ removed.raised = "none"
            /\ get_annotations(removed.self, pair[1], pair[2]) = before

\* remove_annotation has just returned, and there is a (domain, image) with a
\* list of one annotation to which adding a different one and removing at the
\* last index gives the list back.
C11_Witness ==
    /\ called.op = "remove_annotation"
    /\ \E pair \in Pairs, annotation \in Annotations :
          LET before == get_annotations(manager, pair[1], pair[2])
              added == add_annotation(manager, yaml_file, pair[1], pair[2], annotation)
          IN  /\ Len(before) = 1
              /\ before[1] # annotation
              /\ remove_annotation(added.self, added.file, pair[1], pair[2], 1).self.annotations
                    = manager.annotations

----------------------------------------------------------------------------
(* C12 *)

\* The position of a (domain, image) in the store: that of the domain among
\* the domains, then that of the image among the domain's images.
DomainPosition(domain) == DictIndex(manager.annotations, domain)

ImagePosition(domain, image) == DictIndex(DictAt(manager.annotations, domain), image)

\* C12: in every state of the store, get_all_annotations returns as many
\* elements as all the lists hold together; each element's (domain, image,
\* index) addresses a stored annotation, whose fields the element carries; no
\* two elements have the same (domain, image, index); every stored annotation
\* is returned; and the elements are ordered by the position of the domain,
\* then by the position of the image in its domain, then by index.
C12_AllAnnotationsAddressStore ==
    LET all == get_all_annotations(manager)
        list(e) == get_annotations(manager, e.domain, e.image)
        triple(e) == <<e.domain, e.image, e.index>>
    IN  /\ Len(all) = Stored(manager.annotations)
        /\ \A i \in 1..Len(all) :
              /\ DictHas(manager.annotations, all[i].domain)
              /\ DictHas(DictAt(manager.annotations, all[i].domain), all[i].image)
              /\ 0 <= all[i].index /\ all[i].index < Len(list(all[i]))
              /\ \A field \in DOMAIN list(all[i])[all[i].index + 1] :
                    all[i][field] = list(all[i])[all[i].index + 1][field]
        /\ \A i, j \in 1..Len(all) : i # j => triple(all[i]) # triple(all[j])
        /\ \A pair \in Pairs :
              \A k \in 1..Len(get_annotations(manager, pair[1], pair[2])) :
                  \E i \in 1..Len(all) : triple(all[i]) = <<pair[1], pair[2], k - 1>>
        /\ \A i, j \in 1..Len(all) :
              i < j =>
                \/ DomainPosition(all[i].domain) < DomainPosition(all[j].domain)
                \/ /\ all[i].domain = all[j].domain
                   /\ ImagePosition(all[i].domain, all[i].image)
                        < ImagePosition(all[j].domain, all[j].image)
                \/ /\ all[i].domain = all[j].domain
                   /\ all[i].image = all[j].image
                   /\ all[i].index < all[j].index

\* The store holds one annotation under "d3" and one under "d2", which was
\* inserted later: get_all_annotations returns that of "d3" first, each with
\* index 0.
C12_Witness ==
    LET all == get_all_annotations(manager)
    IN  /\ Len(manager.annotations) = 2
        /\ manager.annotations[1][1] = "d3"
        /\ Len(all) = 2
        /\ all[1].domain = "d3" /\ all[1].index = 0
        /\ all[2].domain = "d2" /\ all[2].index = 0
        /\ all[1].point # all[2].point

----------------------------------------------------------------------------
(* C13 *)

\* The number of entries a mapping has under a key.
Occurrences(d, k) == Cardinality({i \in 1..Len(d) : d[i][1] = k})

\* C13: in every state of the store, for every key and fields,
\* add_geographic_point makes get_geographic_points map the key, once, to
\* exactly that name, latitude and longitude; a second add_geographic_point
\* with the same key and other fields leaves the key mapped once, to the
\* second fields only, and adds no entry.  Both calls save.
C13_AddPointThenGet ==
    \A key \in PointKeys, first \in PointFields, second \in PointFields :
        LET a == add_geographic_point(manager, yaml_file, key, first[1], first[2], first[3])
            b == add_geographic_point(a.self, a.file, key, second[1], second[2], second[3])
            points_a == get_geographic_points(a.self)
            points_b == get_geographic_points(b.self)
        IN  /\ a.raised = "none" /\ b.raised = "none"
            /\ Occurrences(points_a, key) = 1
            /\ DictAt(points_a, key)
                 = [name |-> first[1], latitude |-> first[2], longitude |-> first[3]]
            /\ HeldPoints(a.file) = points_a
            /\ Occurrences(points_b, key) = 1
            /\ Len(points_b) = Len(points_a)
            /\ DOMAIN DictAt(points_b, key) = {"name", "latitude", "longitude"}
            /\ DictAt(points_b, key).name = second[1]
            /\ DictAt(points_b, key).latitude = second[2]
            /\ DictAt(points_b, key).longitude = second[3]
            /\ \A other \in PointKeys \ {key} :
                  /\ DictHas(points_b, other) = DictHas(manager.geographic_points, other)
                  /\ DictHas(points_b, other) =>
                        DictAt(points_b, other) = DictAt(manager.geographic_points, other)
            /\ HeldPoints(b.file) = points_b

\* add_geographic_point has just returned; the store maps "sea", its first
\* key, to Portland's fields, next to a second key, and the document holds both.
C13_Witness ==
    /\ called.op = "add_geographic_point"
    /\ Len(manager.geographic_points) = 2
    /\ manager.geographic_points[1] = <<"sea", GeographicPoint("Portland", 45, 0 - 123)>>
    /\ HeldPoints(yaml_file) = manager.geographic_points

----------------------------------------------------------------------------
(* C14 *)

\* C14: two managers are loaded from the same document before either is
\* called.  Whenever the last call is an add_geographic_point by one of them,
\* and the other one had added, under another key, a point that the document
\* did not hold when the two were loaded and that the last caller never named
\* in a call of its own, the document does not hold that point: the last
\* writer's copy of the store is all that is saved.
C14_LastWriterWins ==
    \A i \in 1..Len(calls) :
        LET j == Len(calls)
        IN  ( /\ i < j
              /\ calls[i].op = "add_geographic_point"
              /\ calls[j].op = "add_geographic_point"
              /\ calls[i].by # calls[j].by
              /\ calls[i].key # calls[j].key
              /\ ~DictHas(HeldPoints(peer.loaded), calls[i].key)
              /\ \A k \in 1..j : calls[k].by = calls[j].by => calls[k].key # calls[i].key )
            => /\ ~DictHas(HeldPoints(yaml_file), calls[i].key)
               /\ HeldPoints(yaml_file) = Instance(calls[j].by).geographic_points

\* Both managers were loaded from an empty store; the first one added "sea",
\* then the second one added "pdx": the first one still holds "sea", and the
\* document holds "pdx" only.
C14_Witness ==
    /\ Len(calls) = 2
    /\ calls[1] = [by |-> "manager", op |-> "add_geographic_point", key |-> "sea", saved |-> TRUE]
    /\ calls[2] = [by |-> "peer", op |-> "add_geographic_point", key |-> "pdx", saved |-> TRUE]
    /\ HeldPoints(peer.loaded) = <<>>
    /\ DictHas(manager.geographic_points, "sea")
    /\ DictKeys(HeldPoints(yaml_file)) = {"pdx"}

----------------------------------------------------------------------------
(* C15 *)

\* The entries of all the runs so far, the earlier runs first.
RECURSIVE LogsOf(_)
LogsOf(runs) == IF runs = <<>> THEN <<>> ELSE runs[1].log \o LogsOf(Tail(runs))

AllEntries == LogsOf(earlier) \o log

\* C15: a run that follows a run which returned without error reaches its
\* hours without issuing a GET and without writing, does not fail, and leaves
\* the output root as it found it; and over all the runs, no target path has
\* more than one GET that succeeded nor more than one write (a GET that
\* failed ended its run, and a later run issues it again).
C15_RetrievalIdempotent ==
    /\ ( /\ earlier # <<>>
         /\ earlier[Len(earlier)].state = "done" )
       => /\ \A k \in 1..Len(log) : log[k].outcome = "skip" /\ log[k].url = ""
          /\ files = files0
          /\ run.state # "failed"
    /\ \A path \in AllPaths :
          /\ Cardinality({k \in 1..Len(AllEntries) :
                            AllEntries[k].path = path /\ AllEntries[k].outcome = "written"}) <= 1
          /\ Cardinality({k \in 1..Len(AllEntries) :
                            AllEntries[k].path = path /\ AllEntries[k].response = "ok"}) <= 1

\* A first run over an empty output root wrote a file and returned; the second
\* run has reached the same hours, skipped each of them, and returned.
C15_Witness ==
    /\ Len(earlier) = 1
    /\ earlier[1].state = "done"
    /\ \E k \in 1..Len(earlier[1].log) : earlier[1].log[k].outcome = "written"
    /\ run.state = "done"
    /\ Len(log) = Len(earlier[1].log)
    /\ \A k \in 1..Len(log) : log[k].outcome = "skip"
    /\ files = files0

----------------------------------------------------------------------------
(* C16 *)

\* The annotations of a (domain, image) that reference a point key.
Referencing(self, key) ==
    {<<pair, k>> \in Pairs \X (1..MaxStored + 1) :
        /\ k <= Len(get_annotations(self, pair[1], pair[2]))
        /\ get_annotations(self, pair[1], pair[2])[k].point = key}

\* C16: in every state of the store and for every key, remove_geographic_point
\* raises nothing and leaves the annotations of the object as they are, so
\* every list of every (domain, image) is unchanged; when it saves, the
\* document holds them unchanged too.  The annotations that referenced the key
\* still do, and the points mapping no longer holds the key.
C16_RemovePointNoCascade ==
    \A key \in PointKeys :
        LET r == remove_geographic_point(manager, yaml_file, key)
        IN  /\ r.raised = "none"
            /\ r.self.annotations = manager.annotations
            /\ \A pair \in Pairs :
                  get_annotations(r.self, pair[1], pair[2])
                    = get_annotations(manager, pair[1], pair[2])
            /\ r.saved => HeldAnnotations(r.file) = manager.annotations
            /\ Referencing(r.self, key) = Referencing(manager, key)
            /\ ~DictHas(get_geographic_points(r.self), key)
            /\ r.saved = DictHas(manager.geographic_points, key)

\* remove_geographic_point has just returned and saved; an annotation in the
\* object and in the document references "sea", which the points mapping does
\* not hold, while removing the other key, which the store holds and an
\* annotation references, would leave that annotation in place.
C16_Witness ==
    /\ called.op = "remove_geographic_point"
    /\ ~DictHas(manager.geographic_points, "sea")
    /\ Referencing(manager, "sea") # {}
    /\ HeldAnnotations(yaml_file) = manager.annotations
    /\ HeldPoints(yaml_file) = manager.geographic_points
    /\ DictHas(manager.geographic_points, "pdx")
    /\ Referencing(manager, "pdx") # {}
    /\ Referencing(remove_geographic_point(manager, yaml_file, "pdx").self, "pdx") # {}

----------------------------------------------------------------------------
(* C17 *)

\* C17: in every state of the store and for every key and fields,
\* update_geographic_point raises nothing.  With a key the store does not
\* hold it changes nothing: the object (its points and its annotations) and
\* the file are as before, and nothing is saved, so an absent document stays
\* absent.  With a key the store holds it maps the key, at its place, to the
\* given name, latitude and longitude, leaves the other points and the
\* annotations as they are, and saves.
C17_UpdatePoint ==
    \A key \in PointKeys, fields \in PointFields :
        LET r == update_geographic_point(manager, yaml_file, key,
                                         fields[1], fields[2], fields[3])
            before == manager.geographic_points
            after == r.self.geographic_points
        IN  /\ r.raised = "none"
            /\ r.self.annotations = manager.annotations
            /\ IF ~DictHas(before, key)
               THEN /\ after = before
                    /\ ~DictHas(after, key)
                    /\ r.file = yaml_file
                    /\ ~r.saved
               ELSE /\ Len(after) = Len(before)
                    /\ \A i \in 1..Len(before) :
                          after[i] = IF before[i][1] = key
                                     THEN <<key, [name |-> fields[1], latitude |-> fields[2],
                                                  longitude |-> fields[3]]>>
                                     ELSE before[i]
                    /\ r.saved
                    /\ r.file.exists
                    /\ HeldPoints(r.file) = after
                    /\ HeldAnnotations(r.file) = manager.annotations

\* update_geographic_point has just returned in a store that was constructed
\* without a document and holds no point: nothing was saved, and there still is
\* no document.
C17_Witness ==
    /\ called.op = "update_geographic_point"
    /\ called.raised = "none"
    /\ manager.geographic_points = <<>>
    /\ ~yaml_file.exists

----------------------------------------------------------------------------
(* C18 *)

\* C18: in every state of the store, for every (domain, image), index and
\* annotation, update_annotation raises nothing.  With 0 <= index < length it
\* puts the annotation at that position of the list, leaves the length, the
\* other positions and the lists of the other (domain, image) as they are,
\* and saves.  With an index below 0 or not below the length it leaves the
\* object and the file as they are, so index -1 does not replace the last
\* annotation.
C18_UpdateAnnotation ==
    \A pair \in Pairs, annotation \in Annotations,
       index \in Indexes \cup {0 - 2, 0 - MaxStored, MaxStored + 1} :
        LET before == get_annotations(manager, pair[1], pair[2])
            r == update_annotation(manager, yaml_file, pair[1], pair[2], index, annotation)
            after == get_annotations(r.self, pair[1], pair[2])
        IN  /\ r.raised = "none"
            /\ IF OutOfRange(index, before)
               THEN /\ r.self = manager
                    /\ r.file = yaml_file
                    /\ after = before
               ELSE /\ Len(after) = Len(before)
                    /\ \A k \in 1..Len(before) :
                          after[k] = IF k = index + 1 THEN annotation ELSE before[k]
                    /\ \A other \in Pairs \ {pair} :
                          get_annotations(r.self, other[1], other[2])
                            = get_annotations(manager, other[1], other[2])
                    /\ r.self.geographic_points = manager.geographic_points
                    /\ r.saved
                    /\ HeldAnnotations(r.file) = r.self.annotations

\* update_annotation has just returned; a list holds two different
\* annotations, at which an update at index 1 replaces the second one only, and
\* updates at the indexes -1 and 2 change nothing.
C18_Witness ==
    /\ called.op = "update_annotation"
    /\ \E pair \in Pairs :
          LET list == get_annotations(manager, pair[1], pair[2])
              at(index) == update_annotation(manager, yaml_file, pair[1], pair[2],
                                             index, list[1]).self
          IN  /\ Len(list) = 2
              /\ list[1] # list[2]
              /\ get_annotations(at(1), pair[1], pair[2]) = <<list[1], list[1]>>
              /\ at(0 - 1) = manager
              /\ at(2) = manager

----------------------------------------------------------------------------
(* C19 *)

PointMethods == {"add_geographic_point", "update_geographic_point", "remove_geographic_point"}

CallerChanges == {"caller: points[key] = value", "caller: del points[key]"}

\* C19 (as stated): once a caller holds a mapping that get_geographic_points
\* returned, a call of add_geographic_point, update_geographic_point or
\* remove_geographic_point does not change what the caller reads in it, and a
\* change the caller makes to it does not change the points of the store.
C19_ReturnedIsSnapshot ==
    [][ returned.ref # "none" =>
          /\ called'.op \in PointMethods => Held' = Held
          /\ called'.op \in CallerChanges =>
                get_geographic_points(manager') = get_geographic_points(manager) ]_vars

----------------------------------------------------------------------------
(* C20 *)

\* The shape of the durable document: a mapping at the top (or nothing), whose
\* points each have a name, a latitude and a longitude.
WellFormed(file) ==
    /\ "yaml" \notin DOMAIN file
    /\ \A i \in 1..Len(HeldPoints(file)) :
          DOMAIN HeldPoints(file)[i][2] = {"name", "latitude", "longitude"}

LoadErrors == {"YAMLError", "AttributeError"}

\* C20 (as stated, for the durable document): when the document the manager
\* is constructed over is malformed, the construction raises a load error,
\* and no call is ever made on a manager loaded from it.
C20_MalformedRejected ==
    (calls # <<>> /\ ~WellFormed(calls[1].loaded)) =>
        /\ calls[1].raised \in LoadErrors
        /\ Len(calls) = 1

----------------------------------------------------------------------------
(* C21 *)

\* The (domain, image) pairs asked for: those the calls write, an image that
\* is never written, and a domain that is never written.
AskedPairs == Pairs \cup {<<"d2", "never.gif">>, <<"dX", "a.gif">>}

\* The store holds a list under the (domain, image).
Written(self, domain, image) ==
    /\ DictHas(self.annotations, domain)
    /\ DictHas(DictAt(self.annotations, domain), image)

\* C21: in every state of the store, get_annotations returns the empty
\* sequence for every (domain, image) under which the store holds no list,
\* whether the domain is known or not; for the others it returns the list the
\* store holds.
C21_UnwrittenPairIsEmpty ==
    \A pair \in AskedPairs :
        IF Written(manager, pair[1], pair[2])
        THEN get_annotations(manager, pair[1], pair[2])
                = DictAt(DictAt(manager.annotations, pair[1]), pair[2])
        ELSE get_annotations(manager, pair[1], pair[2]) = <<>>

\* An annotation was added under ("d2", "a.gif"): the store holds a list for
\* that pair only, and get_annotations returns the empty sequence for another
\* image of "d2", for a domain the store does not hold, and for "dX".
C21_Witness ==
    /\ called.op = "add_annotation"
    /\ Len(get_annotations(manager, "d2", "a.gif")) > 0
    /\ DictKeys(manager.annotations) = {"d2"}
    /\ ~Written(manager, "d2", "b.gif")
    /\ get_annotations(manager, "d2", "b.gif") = <<>>
    /\ get_annotations(manager, "d3", "a.gif") = <<>>
    /\ get_annotations(manager, "dX", "a.gif") = <<>>

----------------------------------------------------------------------------
(* C22 *)

\* The log and the output root, at its start and as it is now, of the run
\* that follows run k of the earlier ones.
LogAfter(k) == IF k < Len(earlier) THEN earlier[k + 1].log ELSE log

RootBefore(k) == IF k < Len(earlier) THEN earlier[k + 1].files0 ELSE files0

RootAfter(k) ==
    IF k + 1 < Len(earlier) THEN earlier[k + 2].files0
    ELSE IF k + 1 = Len(earlier) THEN files0
    ELSE files

\* The target a terminated run was writing: that of its last entry.
TargetInWrite(entries) == entries[Len(entries)].path

\* C22: a run terminated inside the write of a target leaves the target on
\* disk with a partial content; the run that follows finds it there, skips
\* every hour that has this target without issuing a GET, and leaves the
\* partial content as it is.
C22_PartialFileTakenAsRetrieved ==
    /\ run.state = "terminated"
       => /\ files[TargetInWrite(log)].exists
          /\ files[TargetInWrite(log)].bytes \in PartialContents
    /\ \A k \in 1..Len(earlier) :
          earlier[k].state = "terminated"
          => LET path == TargetInWrite(earlier[k].log)
                 entries == LogAfter(k)
             IN  /\ RootBefore(k)[path].exists
                 /\ RootBefore(k)[path].bytes \in PartialContents
                 /\ \A j \in 1..Len(entries) :
                       entries[j].path = path
                       => /\ entries[j].existed
                          /\ entries[j].outcome = "skip"
                          /\ entries[j].url = ""
                 /\ RootAfter(k)[path] = RootBefore(k)[path]

\* A first run over an empty output root was terminated in its first write
\* with nothing of the content on disk; the second run has reached the same
\* hour, skipped it, and returned with the empty file still in place.
C22_Witness ==
    /\ Len(earlier) = 1
    /\ earlier[1].state = "terminated"
    /\ Len(earlier[1].log) = 1
    /\ earlier[1].files0 = [path \in AllPaths |-> NoFile]
    /\ run.state = "done"
    /\ \E j \in 1..Len(log) :
          /\ log[j].path = TargetInWrite(earlier[1].log)
          /\ log[j].outcome = "skip"
    /\ files[TargetInWrite(earlier[1].log)] = File("")

----------------------------------------------------------------------------
(* C23 *)

\* The list without the annotations at the zero-based positions index and
\* index + 1.
WithoutTwoFrom(items, index) == SubSeq(items, 1, index) \o SubSeq(items, index + 3, Len(items))

\* Two requests handled one after the other that were sent from the same
\* rendered list with the same index, an index that is not the last of that
\* list, the store holding that list when the first of them ran.
StaleIndexPair(first, second) ==
    /\ first.request.domain = second.request.domain
    /\ first.request.image = second.request.image
    /\ first.request.items = second.request.items
    /\ first.request.index = second.request.index
    /\ first.request.index + 1 < Len(first.request.items)
    /\ first.before = first.request.items

\* C23: two delete requests for the same (domain, image), both sent with the
\* index i of the same rendered list, i + 1 < length, and run one after the
\* other, remove two annotations: the first removes the one at position i,
\* the second the one that was at position i + 1, which is not at the
\* position its button was rendered for.
C23_StaleIndexRemovesNeighbour ==
    \A k \in 1..(Len(page.handled) - 1) :
        LET first == page.handled[k]
            second == page.handled[k + 1]
            items == first.request.items
            index == first.request.index
        IN  StaleIndexPair(first, second)
            => /\ first.after = SubSeq(items, 1, index) \o SubSeq(items, index + 2, Len(items))
               /\ second.before = first.after
               /\ second.after = WithoutTwoFrom(items, index)
               /\ Len(second.after) = Len(items) - 2
               /\ k + 1 = Len(page.handled)
                  => get_annotations(manager, second.request.domain, second.request.image)
                        = second.after

\* Two clicks on the second of three rendered items, both handled: only the
\* first annotation is left, and the third, which neither click addressed,
\* is gone.
C23_Witness ==
    /\ Len(page.handled) = 2
    /\ StaleIndexPair(page.handled[1], page.handled[2])
    /\ page.handled[1].request.index = 1
    /\ Len(page.handled[1].request.items) = 3
    /\ page.handled[2].request.addressed = page.handled[1].request.items[2]
    /\ page.handled[2].request.addressed \notin Range(page.handled[2].before)
    /\ get_annotations(manager, "d2", "a.gif") = <<page.handled[1].request.items[1]>>
    /\ load(yaml_file) = manager

----------------------------------------------------------------------------
(* C24 *)

\* The (domain, image) pairs a domains mapping has a key for.
WrittenPairs(annotations) ==
    UNION {{<<annotations[i][1], annotations[i][2][j][1]>> : j \in 1..Len(annotations[i][2])} :
             i \in 1..Len(annotations)}

KeysKept(before, after) ==
    /\ DictKeys(before) \subseteq DictKeys(after)
    /\ WrittenPairs(before) \subseteq WrittenPairs(after)

\* Every call of a mutating method on the object as it is now, with the
\* arguments of the sessions.
AnyCall(self, file) ==
    {add_geographic_point(self, file, key, fields[1], fields[2], fields[3]) :
        key \in PointKeys, fields \in PointFields}
    \cup {update_geographic_point(self, file, key, fields[1], fields[2], fields[3]) :
            key \in PointKeys, fields \in PointFields}
    \cup {remove_geographic_point(self, file, key) : key \in PointKeys}
    \cup {set_annotations(self, file, pair[1], pair[2], annotations) :
            pair \in Pairs, annotations \in AnnotationLists}
    \cup {add_annotation(self, file, pair[1], pair[2], annotation) :
            pair \in Pairs, annotation \in Annotations}
    \cup {remove_annotation(self, file, pair[1], pair[2], index) :
            pair \in Pairs, index \in Indexes}
    \cup UNION {{update_annotation(self, file, pair[1], pair[2], index, annotation) :
                   pair \in Pairs, index \in Indexes} : annotation \in Annotations}

\* add_annotation and then remove_annotation of index 0, on a pair.
AddThenRemove(self, file, domain, image, annotation) ==
    LET added == add_annotation(self, file, domain, image, annotation)
    IN  remove_annotation(added.self, added.file, domain, image, 0)

\* C24: no store operation removes a domain key or a (domain, image) key, in
\* the object or in the durable document; so an add followed by a remove on
\* a pair never written leaves the pair with an empty list, and the durable
\* document differs from the one before the add.
C24_KeysAreNeverRemoved ==
    /\ \A r \in AnyCall(manager, yaml_file) :
          /\ KeysKept(manager.annotations, r.self.annotations)
          /\ KeysKept(load(yaml_file).annotations, load(r.file).annotations)
    /\ \A pair \in Pairs, annotation \in Annotations :
          ~Written(manager, pair[1], pair[2])
          => LET r == AddThenRemove(manager, yaml_file, pair[1], pair[2], annotation)
             IN  /\ Written(r.self, pair[1], pair[2])
                 /\ get_annotations(r.self, pair[1], pair[2]) = <<>>
                 /\ Written(load(r.file), pair[1], pair[2])
                 /\ r.file # yaml_file
                 /\ r.self.annotations # manager.annotations

\* A session over an absent document in which the only pair ever written was
\* added to and emptied again: the removal was the last call, the pair is
\* held with an empty list, and the document on disk says so.
C24_Witness ==
    /\ called.op = "remove_annotation"
    /\ manager.annotations = <<<<"d3", <<<<"a.gif", <<>>>>>>>>>>
    /\ manager.geographic_points = <<>>
    /\ yaml_file = [exists |-> TRUE, data |-> Document(manager)]
    /\ yaml_file \notin InitialFiles
    /\ KeysKept(manager.annotations, AddThenRemove(manager, yaml_file, "d3", "a.gif",
                    [pixel_x |-> 10, pixel_y |-> 20, point |-> "sea"]).self.annotations)
    /\ ~Written(manager, "d2", "b.gif")
    /\ Written(AddThenRemove(manager, yaml_file, "d2", "b.gif",
                   [pixel_x |-> 10, pixel_y |-> 20, point |-> "sea"]).self, "d2", "b.gif")

----------------------------------------------------------------------------
(* C25 *)

\* C25: whatever mutating calls were made on the instance, a new instance
\* constructed over the durable document as it is now holds the same
\* geographic points and the same annotations, keys and list items in the
\* same order.
C25_SaveLoadRoundTrip ==
    /\ AnnotationManager(yaml_file).raised = "none"
    /\ AnnotationManager(yaml_file).self = manager
    /\ load(yaml_file).geographic_points = manager.geographic_points
    /\ load(yaml_file).annotations = manager.annotations

\* The instance has saved a document of its own in which the points and the
\* domains are in insertion order, not in key order, and one image has two
\* annotations.
C25_Witness ==
    /\ called # NoManagerCall
    /\ yaml_file \notin SavedFiles
    /\ yaml_file.data = Document(manager)
    /\ Len(manager.geographic_points) = 2
    /\ manager.geographic_points[1][1] = "sea"
    /\ manager.geographic_points[2][1] = "pdx"
    /\ Len(manager.annotations) = 2
    /\ manager.annotations[1][1] = "d3"
    /\ manager.annotations[2][1] = "d2"
    /\ Len(get_annotations(manager, "d2", "a.gif")) = 2
    /\ load(yaml_file) = manager

====
